---- MODULE Spec2Model ----
(***************************************************************************)
(* Model of src/Tracker.py: the proxy pool (fetch_proxy_list, get_proxies), *)
(* the retrying RPC client (api_request) and its wrappers, the transaction  *)
(* parser (parse_transaction) and the two polling cycles of the script      *)
(* (button cycle and auto-refresh loop).                                    *)
(*                                                                         *)
(* Python values are modelled as follows.  A str on which the code does     *)
(* character-level work (len, strip, split, slicing, int()) is a sequence   *)
(* of one-character strings.  A dict is a function/record whose DOMAIN is   *)
(* its key set ('k' in d  is  "k" \in DOMAIN d).  None is the record None.   *)
(* A float obtained by true division is an exact reduced fraction           *)
(* [num, den].                                                             *)
(***************************************************************************)
EXTENDS Integers, Sequences, FiniteSets, TLC

VARIABLES
    wallet_input,    \* st.text_input value (line 178)
    invalid_banner,  \* TRUE iff st.error of line 180 was shown for wallet_input
    session_state,   \* st.session_state: a dict, key "proxies_list" once fetched
    proxy_body,      \* outcome of the requests.get of fetch_proxy_list (history)
    pc,              \* position of the script
    api,             \* the api_request call in progress / last finished
    balance, token_balances, nfts, txs,   \* locals of a cycle
    txs_data,        \* the list built from parse_transaction results
    idx,             \* position in txs of the loop / comprehension
    parsed,          \* local "parsed" of the button loop / result of a direct parse
    cycle,           \* "none", "button" (line 188) or "auto" (line 224)
    log,             \* posts and sleeps of the batch, from the last post but one
    lookups,         \* parse_transaction calls of the batch, per entry of txs
    handed,          \* what the cycle handed to st.table and save_to_file
    batches          \* number of cycles started (bounded)

vars == <<wallet_input, invalid_banner, session_state, proxy_body, pc, api,
          balance, token_balances, nfts, txs, txs_data, idx, parsed, cycle,
          log, lookups, handed, batches>>

(***************************************************************************)
(* Bounds of the model.                                                    *)
(***************************************************************************)
MaxRetries == 3      \* retries argument of a direct api_request call: 0..MaxRetries
MaxBodyLen == 3      \* length of the proxy source's response text
MaxAddrLen == 45     \* length of the typed wallet address
MaxTxs == 2          \* length of the signature list of a batch
MaxBatches == 2      \* cycles of the auto-refresh loop that are followed
MaxInstrs == 2       \* instructions of a fabricated transaction record
MaxAccounts == 2     \* account keys of a fabricated transaction record
MaxTokenRows == 2    \* rows of a pre/post token balance snapshot

(***************************************************************************)
(* Program constants.                                                      *)
(***************************************************************************)
DEFAULT_RETRIES == 2
BACKOFF_SECONDS == 2
RATE_LIMIT_SECONDS == 1
PROXY_CAP == 10
LAMPORTS_PER_SOL == 1000000000
DEFAULT_DECIMALS == 9
MINT_PREFIX == 8

None == [py |-> "None"]

(***************************************************************************)
(* Strings and numbers.                                                    *)
(***************************************************************************)
Min(a, b) == IF a <= b THEN a ELSE b

Abs(n) == IF n < 0 THEN -n ELSE n

RECURSIVE GCD(_, _)
GCD(a, b) == IF b = 0 THEN a ELSE GCD(b, a % b)

\* Python true division n / d (d > 0) as a reduced fraction
Div(n, d) ==
    LET g == GCD(Abs(n), d)
    IN  [num |-> n \div g, den |-> d \div g]

Zero == [num |-> 0, den |-> 1]

RECURSIVE Pow10(_)
Pow10(e) == IF e = 0 THEN 1 ELSE 10 * Pow10(e - 1)

Digit(c) ==
    CASE c = "0" -> 0 [] c = "1" -> 1 [] c = "2" -> 2 [] c = "3" -> 3
      [] c = "4" -> 4 [] c = "5" -> 5 [] c = "6" -> 6 [] c = "7" -> 7
      [] c = "8" -> 8 [] c = "9" -> 9

\* int(s) for a string of decimal digits
RECURSIVE int(_)
int(s) ==
    IF Len(s) = 1 THEN Digit(s[1])
    ELSE 10 * int(SubSeq(s, 1, Len(s) - 1)) + Digit(s[Len(s)])

Whitespace == {" ", "\n", "\t"}

RECURSIVE lstrip(_)
lstrip(s) ==
    IF s # <<>> /\ Head(s) \in Whitespace THEN lstrip(Tail(s)) ELSE s

RECURSIVE rstrip(_)
rstrip(s) ==
    IF s # <<>> /\ s[Len(s)] \in Whitespace
    THEN rstrip(SubSeq(s, 1, Len(s) - 1)) ELSE s

strip(s) == rstrip(lstrip(s))

\* s.split(sep) for a one-character separator: always at least one piece
RECURSIVE split(_, _)
split(s, sep) ==
    IF \A i \in 1..Len(s) : s[i] # sep THEN <<s>>
    ELSE LET i == CHOOSE k \in 1..Len(s) :
                      s[k] = sep /\ \A j \in 1..(k - 1) : s[j] # sep
         IN  <<SubSeq(s, 1, i - 1)>> \o split(SubSeq(s, i + 1, Len(s)), sep)

\* s[:n]
Take(s, n) == SubSeq(s, 1, Min(n, Len(s)))

\* truth value of a str / list
Truthy(s) == Len(s) > 0

(***************************************************************************)
(* Proxy pool.                                                             *)
(***************************************************************************)
\* resp.ok = FALSE is any requests.exceptions.RequestException of the get or
\* of raise_for_status
fetch_proxy_list(resp) ==
    IF resp.ok THEN Take(split(strip(resp.text), "\n"), PROXY_CAP)
    ELSE <<>>

HTTP_PREFIX == <<"h", "t", "t", "p", ":", "/", "/">>

get_proxies(proxy) ==
    IF Truthy(proxy)
    THEN [http |-> HTTP_PREFIX \o proxy, https |-> HTTP_PREFIX \o proxy]
    ELSE None

(***************************************************************************)
(* Transaction parser: lines 111-153 of parse_transaction, applied to the  *)
(* value "data" that api_request returned.                                 *)
(***************************************************************************)
\* "not d" for a value that is None or a dict
Falsy(d) == d = None \/ DOMAIN d = {}

NA == <<"N", "/", "A">>

\* datetime.fromtimestamp(t).strftime(...) is kept symbolic
format_date(timestamp) ==
    IF timestamp # None /\ timestamp.secs # 0
    THEN [strftime |-> "%Y-%m-%d %H:%M:%S", secs |-> timestamp.secs]
    ELSE [strftime |-> "N/A"]

\* next((i for i, acct in enumerate(accounts) if acct['pubkey'] == w), None)
\* finds something
wallet_listed(accounts, wallet_address) ==
    \E i \in 1..Len(accounts) : accounts[i].pubkey = wallet_address

\* the position it finds, counted from 1 here
wallet_index_of(accounts, wallet_address) ==
    CHOOSE i \in 1..Len(accounts) :
        /\ accounts[i].pubkey = wallet_address
        /\ \A j \in 1..(i - 1) : accounts[j].pubkey # wallet_address

\* variant: the difference is taken the wrong way round
net_change_sol_of_PreMinusPost(tx, wallet_address) ==
    IF /\ "meta" \in DOMAIN tx
       /\ "preBalances" \in DOMAIN tx.meta
       /\ "postBalances" \in DOMAIN tx.meta
    THEN LET accounts == tx.transaction.message.accountKeys
         IN  IF wallet_listed(accounts, wallet_address)
             THEN LET wallet_index == wallet_index_of(accounts, wallet_address)
                  IN  Div(tx.meta.preBalances[wallet_index]
                            - tx.meta.postBalances[wallet_index],
                          LAMPORTS_PER_SOL)
             ELSE Zero
    ELSE Zero

net_change_sol_of(tx, wallet_address) ==
    IF /\ "meta" \in DOMAIN tx
       /\ "preBalances" \in DOMAIN tx.meta
       /\ "postBalances" \in DOMAIN tx.meta
    THEN LET accounts == tx.transaction.message.accountKeys
         IN  IF wallet_listed(accounts, wallet_address)
             THEN LET wallet_index == wallet_index_of(accounts, wallet_address)
                  IN  Div(tx.meta.postBalances[wallet_index]
                            - tx.meta.preBalances[wallet_index],
                          LAMPORTS_PER_SOL)
             ELSE Zero
    ELSE Zero

\* d[k] = v on a dict
Put(d, k, v) == [x \in (DOMAIN d) \cup {k} |-> IF x = k THEN v ELSE d[x]]

\* variant: a mint that already has a delta keeps it
RECURSIVE token_loop_KeepsFirst(_, _, _, _, _, _)
token_loop_KeepsFirst(pre, post, wallet_address, j, n, acc) ==
    IF j > n THEN acc
    ELSE LET delta == post[j].uiTokenAmount.uiAmount
                        - pre[j].uiTokenAmount.uiAmount
             acc2 == IF /\ pre[j].owner = wallet_address
                        /\ post[j].owner = wallet_address
                        /\ delta # 0
                        /\ pre[j].mint \notin DOMAIN acc
                     THEN Put(acc, pre[j].mint, delta)
                     ELSE acc
         IN  token_loop_KeepsFirst(pre, post, wallet_address, j + 1, n, acc2)

\* the body of the zip loop of lines 128-133, for pairs j..n, on dict acc
RECURSIVE token_loop(_, _, _, _, _, _)
token_loop(pre, post, wallet_address, j, n, acc) ==
    IF j > n THEN acc
    ELSE LET delta == post[j].uiTokenAmount.uiAmount
                        - pre[j].uiTokenAmount.uiAmount
             acc2 == IF /\ pre[j].owner = wallet_address
                        /\ post[j].owner = wallet_address
                        /\ delta # 0
                     THEN Put(acc, pre[j].mint, delta)
                     ELSE acc
         IN  token_loop(pre, post, wallet_address, j + 1, n, acc2)

net_changes_token_of(tx, wallet_address) ==
    IF /\ "meta" \in DOMAIN tx
       /\ "preTokenBalances" \in DOMAIN tx.meta
       /\ "postTokenBalances" \in DOMAIN tx.meta
    THEN LET pre == tx.meta.preTokenBalances
             post == tx.meta.postTokenBalances
         IN  token_loop(pre, post, wallet_address, 1,
                        Min(Len(pre), Len(post)), <<>>)
    ELSE <<>>

UnknownTransfer == [type |-> [kind |-> "Unknown"], amount |-> Zero, recipient |-> NA]

\* the for loop of lines 136-151: the first instruction with a parsed type
\* 'transfer' ends the scan, whether or not one of the two branches took it
RECURSIVE scan_instructions(_)
scan_instructions(instructions) ==
    IF instructions = <<>> THEN UnknownTransfer
    ELSE LET instr == Head(instructions)
         IN  IF "parsed" \in DOMAIN instr /\ instr.parsed.type = "transfer"
             THEN LET info == instr.parsed.info
                  IN  IF "lamports" \in DOMAIN info
                      THEN [type |-> [kind |-> "SOL Transfer"],
                            amount |-> Div(info.lamports, LAMPORTS_PER_SOL),
                            recipient |-> info.destination]
                      ELSE IF "amount" \in DOMAIN info /\ "mint" \in DOMAIN info
                      THEN [type |-> [kind |-> "Token Transfer",
                                      mint |-> Take(info.mint, MINT_PREFIX)],
                            amount |-> Div(int(info.amount),
                                           Pow10(IF "decimals" \in DOMAIN info
                                                 THEN info.decimals
                                                 ELSE DEFAULT_DECIMALS)),
                            recipient |-> info.destination]
                      ELSE UnknownTransfer
             ELSE scan_instructions(Tail(instructions))

parse_result(data, signature, wallet_address) ==
    IF Falsy(data) \/ "result" \notin DOMAIN data \/ Falsy(data.result)
    THEN None
    ELSE LET tx == data.result
             transfer_info ==
                 scan_instructions(tx.transaction.message.instructions)
         IN  [date |-> format_date(tx.blockTime),
              signature |-> signature,
              type |-> transfer_info.type,
              amount |-> transfer_info.amount,
              recipient |-> transfer_info.recipient,
              net_change_sol |-> net_change_sol_of(tx, wallet_address),
              net_changes_token |-> net_changes_token_of(tx, wallet_address)]

(***************************************************************************)
(* Wrappers of api_request: what each makes of the returned data.          *)
(***************************************************************************)
HasResult(data) == ~Falsy(data) /\ "result" \in DOMAIN data

\* variant: a missing result is reported as a zero balance
balance_result_ZeroDefault(data) ==
    IF HasResult(data) THEN Div(data.result.value, LAMPORTS_PER_SOL) ELSE Zero

balance_result(data) ==
    IF HasResult(data) THEN Div(data.result.value, LAMPORTS_PER_SOL) ELSE None

token_accounts_result(data) ==
    IF HasResult(data) THEN data.result.value ELSE <<>>

recent_transactions_result(data) ==
    IF HasResult(data) THEN data.result ELSE <<>>

AccountInfo(account) == account.account.data.parsed.info

\* the loop of get_token_balances, one list at a time
RECURSIVE balances_of(_)
balances_of(token_accounts) ==
    IF token_accounts = <<>> THEN <<>>
    ELSE LET info == AccountInfo(Head(token_accounts))
         IN  (IF info.tokenAmount.uiAmount > 0
              THEN <<[mint |-> info.mint,
                      amount |-> info.tokenAmount.uiAmount,
                      decimals |-> info.tokenAmount.decimals]>>
              ELSE <<>>) \o balances_of(Tail(token_accounts))

RECURSIVE nfts_of(_)
nfts_of(token_accounts) ==
    IF token_accounts = <<>> THEN <<>>
    ELSE LET info == AccountInfo(Head(token_accounts))
         IN  (IF info.tokenAmount.decimals = 0 /\ info.tokenAmount.uiAmount = 1
              THEN <<[mint |-> info.mint]>>
              ELSE <<>>) \o nfts_of(Tail(token_accounts))

get_token_balances(token_accounts) ==
    [balances |-> balances_of(token_accounts), nfts |-> nfts_of(token_accounts)]

\* variant: only the 44-character form is accepted
address_flagged_Only44(w) == Truthy(w) /\ Len(w) # 44

\* len(wallet_input) not in [32, 44], guarded by the truth value of the input
address_flagged(w) == Truthy(w) /\ Len(w) \notin {32, 44}

(***************************************************************************)
(* What the outside world can answer.                                      *)
(***************************************************************************)
Repeat(c, n) == [i \in 1..n |-> c]

RECURSIVE StringsUpTo(_, _)
StringsUpTo(alphabet, n) ==
    IF n = 0 THEN {<<>>}
    ELSE LET shorter == StringsUpTo(alphabet, n - 1)
         IN  shorter \cup {Append(t, c) : t \in shorter, c \in alphabet}

\* the proxy source: a failed fetch, or a newline-delimited text
ProxyResponses ==
    {[ok |-> FALSE]}
      \cup {[ok |-> TRUE, text |-> t] : t \in StringsUpTo({"p", "\n"}, MaxBodyLen)}

\* typed addresses: one repeated base58 character, any length
AddressInputs == {Repeat(c, n) : c \in {"1", "A", "z"}, n \in 0..MaxAddrLen}

Wallet == Repeat("A", 44)
Other == Repeat("z", 44)
SessionInputs == {<<>>, Wallet, Repeat("A", 3)}

Mint1 == <<"M", "i", "n", "t", "O", "n", "e", "1", "1", "1">>
Mint2 == <<"M", "2">>

TokenAccount(mint, uiAmount, decimals) ==
    [account |-> [data |-> [parsed |-> [info |->
        [mint |-> mint,
         tokenAmount |-> [uiAmount |-> uiAmount, decimals |-> decimals]]]]]]

\* signatures are opaque: the i-th signature of the history is i
SignatureList(n) == [i \in 1..n |-> [signature |-> i]]

SolTransfer(lamports, to) ==
    [parsed |-> [type |-> "transfer",
                 info |-> [lamports |-> lamports, destination |-> to]]]

SessionTx ==
    [blockTime |-> [secs |-> 1700000000],
     meta |-> [preBalances |-> <<2000000000, 0>>,
               postBalances |-> <<1500000000, 500000000>>,
               preTokenBalances |-> <<>>,
               postTokenBalances |-> <<>>],
     transaction |-> [message |->
        [accountKeys |-> <<[pubkey |-> Wallet], [pubkey |-> Other]>>,
         instructions |-> <<SolTransfer(500000000, Other)>>]]]

RpcError == [error |-> [code |-> 429]]

\* the JSON bodies a 2xx answer to a method can carry
Responses(method) ==
    CASE method = "getBalance" ->
            {RpcError, [result |-> [value |-> 2000000000]]}
      [] method = "getTokenAccountsByOwner" ->
            {RpcError,
             [result |-> [value |-> <<TokenAccount(Mint1, 1, 0),
                                      TokenAccount(Mint2, 0, 6)>>]]}
      [] method = "getSignaturesForAddress" ->
            {RpcError} \cup {[result |-> SignatureList(n)] : n \in 0..MaxTxs}
      [] method = "getTransaction" ->
            {RpcError, [result |-> None], [result |-> SessionTx]}

Methods == {"getBalance", "getTokenAccountsByOwner", "getSignaturesForAddress",
            "getTransaction"}

(***************************************************************************)
(* api_request, one step per attempt and per backoff sleep.                *)
(***************************************************************************)
NoCall ==
    [state |-> "idle", method |-> "none", entry |-> 0, retries |-> 0,
     attempt |-> 0, proxies |-> None, posts |-> 0, fails |-> 0, sleeps |-> 0,
     ret |-> None]

\* entering api_request(payload, proxies_list, retries); entry is the position
\* in txs of the signature a getTransaction payload carries (0: none)
ApiStart(method, entry, retries) ==
    [NoCall EXCEPT !.state = "attempt", !.method = method, !.entry = entry,
                   !.retries = retries]

PostEvent(a) == [ev |-> "post", method |-> a.method, entry |-> a.entry]
SleepEvent(secs) == [ev |-> "sleep", secs |-> secs]

\* the log keeps the previous post, what followed it, and the new post
LogPost(l, e) ==
    LET posts == {k \in 1..Len(l) : l[k].ev = "post"}
        from == IF posts = {} THEN 1
                ELSE CHOOSE k \in posts : \A j \in posts : j <= k
    IN  Append(SubSeq(l, from, Len(l)), e)

\* lines 33-38: the proxies argument of this attempt's post
ProxiesChoice(proxies_list) ==
    IF Truthy(proxies_list)
    THEN {get_proxies(proxies_list[i]) : i \in 1..Len(proxies_list)}
    ELSE {None}

CycleVars == <<balance, token_balances, nfts, txs, txs_data, idx, parsed,
               cycle, lookups, handed, batches>>
InputVars == <<wallet_input, invalid_banner, session_state, proxy_body>>

\* lines 39-42: the post succeeds with a 2xx and a JSON body, which is returned
ApiPostOk ==
    /\ api.state = "attempt"
    /\ \E proxies \in ProxiesChoice(session_state.proxies_list) :
       \E payload \in Responses(api.method) :
          api' = [api EXCEPT !.state = "returned", !.proxies = proxies,
                             !.posts = @ + 1, !.ret = payload]
    /\ log' = LogPost(log, PostEvent(api))
    /\ UNCHANGED <<pc, InputVars, CycleVars>>

\* variant: the exhaustion test is off by one, the loop gives up one attempt
\* early
ApiPostFail_GivesUpEarly ==
    /\ api.state = "attempt"
    /\ \E proxies \in ProxiesChoice(session_state.proxies_list) :
          api' = [api EXCEPT !.proxies = proxies, !.posts = @ + 1,
                             !.fails = @ + 1,
                             !.state = IF api.attempt + 1 < api.retries
                                       THEN "sleep" ELSE "returned",
                             !.ret = None]
    /\ log' = LogPost(log, PostEvent(api))
    /\ UNCHANGED <<pc, InputVars, CycleVars>>

\* variant: the sleep is not guarded by "attempt < retries"
ApiPostFail_AlwaysSleeps ==
    /\ api.state = "attempt"
    /\ \E proxies \in ProxiesChoice(session_state.proxies_list) :
          api' = [api EXCEPT !.proxies = proxies, !.posts = @ + 1,
                             !.fails = @ + 1,
                             !.state = "sleep",
                             !.ret = None]
    /\ log' = LogPost(log, PostEvent(api))
    /\ UNCHANGED <<pc, InputVars, CycleVars>>

\* lines 43-47: the post raises a RequestException; the last attempt falls out
\* of the loop and returns None
ApiPostFail ==
    /\ api.state = "attempt"
    /\ \E proxies \in ProxiesChoice(session_state.proxies_list) :
          api' = [api EXCEPT !.proxies = proxies, !.posts = @ + 1,
                             !.fails = @ + 1,
                             !.state = IF api.attempt < api.retries
                                       THEN "sleep" ELSE "returned",
                             !.ret = None]
    /\ log' = LogPost(log, PostEvent(api))
    /\ UNCHANGED <<pc, InputVars, CycleVars>>

\* line 46, then the next iteration of the for loop
ApiSleep ==
    /\ api.state = "sleep"
    /\ api' = [api EXCEPT !.state = "attempt", !.attempt = @ + 1,
                          !.sleeps = @ + 1]
    /\ log' = Append(log, SleepEvent(BACKOFF_SECONDS))
    /\ UNCHANGED <<pc, InputVars, CycleVars>>

(***************************************************************************)
(* The script, top to bottom.                                              *)
(***************************************************************************)
\* lines 178-180: the text field and the validity check
TextInput(inputs) ==
    /\ pc = "start"
    /\ \E w \in inputs :
          /\ wallet_input' = w
          /\ invalid_banner' = address_flagged(w)
    /\ pc' = "fetch"
    /\ UNCHANGED <<session_state, proxy_body, api, log, CycleVars>>

\* lines 182-186: first run only, the key is not in the session state yet
FetchProxyList(next) ==
    /\ pc = "fetch"
    /\ "proxies_list" \notin DOMAIN session_state
    /\ \E resp \in ProxyResponses :
          /\ proxy_body' = resp
          /\ session_state' = [proxies_list |-> fetch_proxy_list(resp)]
    /\ pc' = next
    /\ UNCHANGED <<wallet_input, invalid_banner, api, log, CycleVars>>

\* first statement of a cycle (lines 190 / 228): get_balance is called
BeginCycle(kind) ==
    /\ cycle' = kind
    /\ batches' = batches + 1
    /\ api' = ApiStart("getBalance", 0, DEFAULT_RETRIES)
    /\ pc' = "get_balance"
    /\ log' = <<>>
    /\ lookups' = <<>>
    /\ handed' = <<>>
    /\ balance' = None
    /\ token_balances' = <<>>
    /\ nfts' = <<>>
    /\ txs' = <<>>
    /\ txs_data' = <<>>
    /\ idx' = 0
    /\ parsed' = None
    /\ UNCHANGED InputVars

\* line 188: the button is enabled only for a non-empty input
ButtonClick ==
    /\ pc = "button"
    /\ Truthy(wallet_input)
    /\ BeginCycle("button")

ButtonSkip ==
    /\ pc = "button"
    /\ pc' = "checkbox"
    /\ UNCHANGED <<InputVars, api, log, CycleVars>>

\* line 224: the checkbox is enabled only for a non-empty input
CheckboxOn ==
    /\ pc = "checkbox"
    /\ Truthy(wallet_input)
    /\ batches < MaxBatches
    /\ BeginCycle("auto")

\* line 255: neither (or no further) cycle, the script ends
CheckboxOff ==
    /\ pc = "checkbox"
    /\ pc' = "done"
    /\ UNCHANGED <<InputVars, api, log, CycleVars>>

\* get_balance returns (lines 57-59), get_token_accounts is called
AfterGetBalance ==
    /\ pc = "get_balance"
    /\ api.state = "returned"
    /\ balance' = balance_result(api.ret)
    /\ api' = ApiStart("getTokenAccountsByOwner", 0, DEFAULT_RETRIES)
    /\ pc' = "get_token_accounts"
    /\ UNCHANGED <<InputVars, log, token_balances, nfts, txs, txs_data, idx,
                   parsed, cycle, lookups, handed, batches>>

\* get_token_accounts returns (lines 73-75), get_token_balances runs,
\* get_recent_transactions is called
AfterGetTokenAccounts ==
    /\ pc = "get_token_accounts"
    /\ api.state = "returned"
    /\ LET r == get_token_balances(token_accounts_result(api.ret))
       IN  /\ token_balances' = r.balances
           /\ nfts' = r.nfts
    /\ api' = ApiStart("getSignaturesForAddress", 0, DEFAULT_RETRIES)
    /\ pc' = "get_recent_transactions"
    /\ UNCHANGED <<InputVars, log, balance, txs, txs_data, idx, parsed, cycle,
                   lookups, handed, batches>>

\* entering parse_transaction for the idx-th entry: api_request is called
CallParse(i) ==
    /\ api' = ApiStart("getTransaction", i, DEFAULT_RETRIES)
    /\ lookups' = [lookups EXCEPT ![i] = @ + 1]

\* get_recent_transactions returns (lines 99-101); lines 208-212 / 244-246:
\* with a non-empty list the first parse_transaction is called
AfterGetRecentTransactions ==
    /\ pc = "get_recent_transactions"
    /\ api.state = "returned"
    /\ LET list == recent_transactions_result(api.ret)
       IN  /\ txs' = list
           /\ txs_data' = <<>>
           /\ log' = <<>>
           /\ IF Truthy(list)
              THEN /\ idx' = 1
                   /\ api' = ApiStart("getTransaction", 1, DEFAULT_RETRIES)
                   /\ lookups' = [i \in 1..Len(list) |-> IF i = 1 THEN 1 ELSE 0]
                   /\ pc' = IF cycle = "button" THEN "parse_loop"
                            ELSE "parse_cond"
              ELSE /\ pc' = IF cycle = "button" THEN "save"
                            ELSE "interval_sleep"
                   /\ UNCHANGED <<idx, api, lookups>>
    /\ UNCHANGED <<InputVars, balance, token_balances, nfts, parsed, cycle,
                   handed, batches>>

\* lines 212-214: parse_transaction returns, a truthy result is appended
AfterParseButton ==
    /\ pc = "parse_loop"
    /\ api.state = "returned"
    /\ LET r == parse_result(api.ret, txs[idx].signature, wallet_input)
       IN  /\ parsed' = r
           /\ txs_data' = IF r # None THEN Append(txs_data, r) ELSE txs_data
    /\ pc' = "rate_sleep"
    /\ UNCHANGED <<InputVars, api, log, balance, token_balances, nfts, txs,
                   idx, cycle, lookups, handed, batches>>

\* line 215, then the next iteration of the for loop of line 211
RateSleep ==
    /\ pc = "rate_sleep"
    /\ log' = Append(log, SleepEvent(RATE_LIMIT_SECONDS))
    /\ IF idx < Len(txs)
       THEN /\ idx' = idx + 1
            /\ CallParse(idx + 1)
            /\ pc' = "parse_loop"
       ELSE /\ pc' = "save"
            /\ UNCHANGED <<idx, api, lookups>>
    /\ UNCHANGED <<InputVars, balance, token_balances, nfts, txs, txs_data,
                   parsed, cycle, handed, batches>>

\* lines 217-222: the table (when non-empty) and save_to_file get txs_data
ButtonSave ==
    /\ pc = "save"
    /\ cycle = "button"
    /\ handed' = txs_data
    /\ pc' = "checkbox"
    /\ UNCHANGED <<InputVars, api, log, balance, token_balances, nfts, txs,
                   txs_data, idx, parsed, cycle, lookups, batches>>

\* the comprehension of line 246 moves to the next tx, or ends
NextEntry ==
    IF idx < Len(txs)
    THEN /\ idx' = idx + 1
         /\ CallParse(idx + 1)
         /\ pc' = "parse_cond"
    ELSE /\ pc' = "save"
         /\ UNCHANGED <<idx, api, lookups>>

\* line 246, the "if" of the comprehension: parse_transaction returns; when
\* the result is truthy the element expression calls parse_transaction again
AfterParseCond ==
    /\ pc = "parse_cond"
    /\ api.state = "returned"
    /\ IF parse_result(api.ret, txs[idx].signature, wallet_input) # None
       THEN /\ CallParse(idx)
            /\ pc' = "parse_value"
            /\ UNCHANGED idx
       ELSE NextEntry
    /\ UNCHANGED <<InputVars, log, balance, token_balances, nfts, txs,
                   txs_data, parsed, cycle, handed, batches>>

\* line 246, the element expression: whatever this second call returns is
\* the element
AfterParseValue ==
    /\ pc = "parse_value"
    /\ api.state = "returned"
    /\ txs_data' = Append(txs_data,
                     parse_result(api.ret, txs[idx].signature, wallet_input))
    /\ NextEntry
    /\ UNCHANGED <<InputVars, log, balance, token_balances, nfts, txs, parsed,
                   cycle, handed, batches>>

HasNone(list) == \E i \in 1..Len(list) : list[i] = None

\* lines 247-251: pd.DataFrame / the lambda of line 249 / save_to_file get
\* txs_data; an element None makes tx['date'] (line 168) raise
AutoSave ==
    /\ pc = "save"
    /\ cycle = "auto"
    /\ handed' = txs_data
    /\ pc' = IF HasNone(txs_data) THEN "fault" ELSE "interval_sleep"
    /\ UNCHANGED <<InputVars, api, log, balance, token_balances, nfts, txs,
                   txs_data, idx, parsed, cycle, lookups, batches>>

\* lines 252-253: sleep, then st.rerun(): the rerun has the same input, finds
\* the proxies in the session state, an unpressed button and the checkbox on
IntervalSleep ==
    /\ pc = "interval_sleep"
    /\ batches < MaxBatches
    /\ BeginCycle("auto")

(***************************************************************************)
(* Direct use of the core: one api_request with any retries, and           *)
(* parse_transaction on a fabricated record.                               *)
(***************************************************************************)
DirectCall ==
    /\ pc = "direct"
    /\ \E m \in Methods, r \in 0..MaxRetries :
          api' = ApiStart(m, IF m = "getTransaction" THEN 1 ELSE 0, r)
    /\ pc' = "direct_call"
    /\ log' = <<>>
    /\ UNCHANGED <<InputVars, CycleVars>>

\* lines 111-153 on the data a finished api_request returned
ApplyParse ==
    /\ pc = "parse_direct"
    /\ api.state = "returned"
    /\ parsed' = parse_result(api.ret, api.entry, wallet_input)
    /\ pc' = "parsed"
    /\ UNCHANGED <<InputVars, api, log, balance, token_balances, nfts, txs,
                   txs_data, idx, cycle, lookups, handed, batches>>

(***************************************************************************)
(* Fabricated transaction records.                                         *)
(***************************************************************************)
RECURSIVE SeqsUpTo(_, _)
SeqsUpTo(S, n) ==
    IF n = 0 THEN {<<>>}
    ELSE LET shorter == SeqsUpTo(S, n - 1)
         IN  shorter \cup {Append(t, x) : t \in shorter, x \in S}

SeqsOfLen(S, n) == {t \in SeqsUpTo(S, n) : Len(t) = n}

TokenTransfer(info) == [parsed |-> [type |-> "transfer", info |-> info]]

Instructions ==
    { [programId |-> "Memo"],
      [parsed |-> [type |-> "createAccount",
                   info |-> [lamports |-> 1000000000, destination |-> Other]]],
      SolTransfer(1000000000, Other),
      SolTransfer(500000000, Wallet),
      TokenTransfer([amount |-> <<"5", "0", "0">>, mint |-> Mint1,
                     decimals |-> 2, destination |-> Other]),
      TokenTransfer([amount |-> <<"5">>, mint |-> Mint2,
                     destination |-> Wallet]),
      TokenTransfer([amount |-> <<"5", "0", "0">>, destination |-> Other]) }

Record(blockTime, meta, accountKeys, instructions) ==
    [blockTime |-> blockTime,
     meta |-> meta,
     transaction |-> [message |-> [accountKeys |-> accountKeys,
                                    instructions |-> instructions]]]

Keys(pubkeys) == [i \in 1..Len(pubkeys) |-> [pubkey |-> pubkeys[i]]]

\* records that differ in their instruction list
InstructionRecords ==
    {Record(t, [err |-> None], Keys(<<Wallet, Other>>), ins) :
        t \in {None, [secs |-> 1700000000]},
        ins \in SeqsUpTo(Instructions, MaxInstrs)}

Lamports == {0, 1500000000, 2000000000}

\* records that differ in their account list and balance snapshots
BalanceRecords ==
    UNION {
      {Record([secs |-> 1700000000], [preBalances |-> pre, postBalances |-> post],
              Keys(ks), ins) :
          pre \in SeqsOfLen(Lamports, Len(ks)),
          post \in SeqsOfLen(Lamports, Len(ks)),
          ins \in {<<>>, <<SolTransfer(1000000000, Other)>>}}
        \cup {Record([secs |-> 1700000000],
                     [preBalances |-> [i \in 1..Len(ks) |-> 0]], Keys(ks), <<>>)}
      : ks \in SeqsUpTo({Wallet, Other}, MaxAccounts) }

TokenRows ==
    {[owner |-> o, mint |-> m, uiTokenAmount |-> [uiAmount |-> a]] :
        o \in {Wallet, Other}, m \in {Mint1, Mint2}, a \in {1, 2}}

\* records that differ in their token balance snapshots
TokenRecords ==
    {Record([secs |-> 1700000000],
            [preTokenBalances |-> pre, postTokenBalances |-> post],
            Keys(<<Wallet, Other>>), <<>>) :
        pre \in SeqsUpTo(TokenRows, MaxTokenRows),
        post \in SeqsUpTo(TokenRows, MaxTokenRows)}
      \cup {Record([secs |-> 1700000000], [preTokenBalances |-> pre],
                   Keys(<<Wallet, Other>>), <<>>) :
              pre \in SeqsUpTo(TokenRows, 1)}

(***************************************************************************)
(* Specifications.                                                         *)
(***************************************************************************)
Idle(at) ==
    /\ pc = at
    /\ invalid_banner = FALSE
    /\ proxy_body = None
    /\ balance = None
    /\ token_balances = <<>>
    /\ nfts = <<>>
    /\ txs = <<>>
    /\ txs_data = <<>>
    /\ idx = 0
    /\ parsed = None
    /\ cycle = "none"
    /\ log = <<>>
    /\ lookups = <<>>
    /\ handed = <<>>
    /\ batches = 0

\* the script: first run of a session
Init ==
    /\ Idle("start")
    /\ wallet_input = <<>>
    /\ session_state = <<>>
    /\ api = NoCall

Next ==
    \/ TextInput(SessionInputs)
    \/ FetchProxyList("button")
    \/ ButtonClick
    \/ ButtonSkip
    \/ CheckboxOn
    \/ CheckboxOff
    \/ ApiPostOk
    \/ ApiPostFail
    \/ ApiSleep
    \/ AfterGetBalance
    \/ AfterGetTokenAccounts
    \/ AfterGetRecentTransactions
    \/ AfterParseButton
    \/ RateSleep
    \/ ButtonSave
    \/ AfterParseCond
    \/ AfterParseValue
    \/ AutoSave
    \/ IntervalSleep

Spec == Init /\ [][Next]_vars

\* the proxy pool and one api_request with any retries
InitApi ==
    /\ Idle("fetch")
    /\ wallet_input = Wallet
    /\ session_state = <<>>
    /\ api = NoCall

NextApi ==
    \/ FetchProxyList("direct")
    \/ DirectCall
    \/ ApiPostOk
    \/ ApiPostFail
    \/ ApiSleep

SpecApi == InitApi /\ [][NextApi]_vars

\* the validity check on any typed address
InitAddr ==
    /\ Idle("start")
    /\ wallet_input = <<>>
    /\ session_state = <<>>
    /\ api = NoCall

NextAddr == TextInput(AddressInputs)

SpecAddr == InitAddr /\ [][NextAddr]_vars

\* parse_transaction on the data of a successful getTransaction
Returned(data) ==
    [ApiStart("getTransaction", 1, DEFAULT_RETRIES)
        EXCEPT !.state = "returned", !.posts = 1, !.ret = data]

InitParse(records) ==
    /\ Idle("parse_direct")
    /\ wallet_input \in {Wallet, Other}
    /\ session_state = [proxies_list |-> <<>>]
    /\ \E tx \in records : api = Returned([result |-> tx])

NextParse == ApplyParse

SpecInstr == InitParse(InstructionRecords) /\ [][NextParse]_vars

SpecBalance == InitParse(BalanceRecords) /\ [][NextParse]_vars

SpecToken == InitParse(TokenRecords) /\ [][NextParse]_vars

(***************************************************************************)
(* Properties.                                                             *)
(***************************************************************************)

\* C1: an api_request that has returned after f failed attempts, with
\* f <= retries, returns the JSON body of the successful post and has issued
\* exactly f + 1 posts; with more than retries failures it returns None and
\* has issued exactly retries + 1 posts; a returned call issues no further
\* post.
C1_Returned ==
    api.state = "returned" =>
        IF api.fails <= api.retries
        THEN api.ret \in Responses(api.method) /\ api.posts = api.fails + 1
        ELSE /\ api.ret = None
             /\ api.fails = api.retries + 1
             /\ api.posts = api.retries + 1

C1_NoPostAfterReturn ==
    (api.state = "returned" /\ api'.method = api.method
        /\ api'.retries = api.retries) => api' = api

C1_RetryContract == [](C1_Returned) /\ [][C1_NoPostAfterReturn]_vars

C1_Witness ==
    /\ pc = "direct_call"
    /\ api.state = "returned"
    /\ api.retries = 3
    /\ api.fails = 2
    /\ api.posts = 3
    /\ api.ret # None

\* C8: the backoff sleep happens once after each failed attempt that is
\* followed by another attempt, never after a success or after the last
\* failed attempt: while a call is asleep it has slept fails - 1 times and
\* has attempts left, otherwise it has slept min(fails, retries) times; and
\* in the log every backoff sleep comes directly after a post.
C8_BackoffCount ==
    /\ api.state = "sleep" =>
          api.sleeps = api.fails - 1 /\ api.fails <= api.retries
    /\ api.state \in {"attempt", "returned"} =>
          api.sleeps = Min(api.fails, api.retries)
    /\ \A k \in 1..Len(log) :
          (log[k].ev = "sleep" /\ log[k].secs = BACKOFF_SECONDS) =>
              k > 1 /\ log[k - 1].ev = "post"

C8_Witness ==
    /\ pc = "direct_call"
    /\ api.state = "returned"
    /\ api.retries = 2
    /\ api.fails = 3
    /\ api.sleeps = 2
    /\ log[Len(log)].ev = "post"

\* C2 (as claimed): after a successful fetch of an empty body the proxy list
\* is the empty sequence and every post of api_request goes out with
\* proxies = None.
C2_EmptyBodyGivesEmptyList ==
    proxy_body = [ok |-> TRUE, text |-> <<>>] =>
        /\ session_state.proxies_list = <<>>
        /\ api.posts > 0 => api.proxies = None

\* C3 (as claimed): the address is flagged exactly when its length is
\* neither 32 nor 44, the empty string included.
C3_FlaggedIffBadLength ==
    pc = "fetch" => (invalid_banner <=> Len(wallet_input) \notin {32, 44})

\* C3 (amended): a non-empty address is flagged exactly when its length is
\* neither 32 nor 44; the empty string is not flagged.
C3_FlaggedIffNonEmptyBadLength ==
    pc = "fetch" =>
        (invalid_banner <=>
            (Len(wallet_input) # 0 /\ Len(wallet_input) \notin {32, 44}))

C3_Witness ==
    /\ pc = "fetch"
    /\ Len(wallet_input) = 43
    /\ invalid_banner

\* a recognized transfer: a native transfer carrying lamports, or a token
\* transfer carrying amount and mint
Recognized(instr) ==
    /\ "parsed" \in DOMAIN instr
    /\ instr.parsed.type = "transfer"
    /\ \/ "lamports" \in DOMAIN instr.parsed.info
       \/ {"amount", "mint"} \subseteq DOMAIN instr.parsed.info

Classified(summary) ==
    [type |-> summary.type, amount |-> summary.amount,
     recipient |-> summary.recipient]

\* C4 (as claimed): the summary carries the type, amount and recipient of the
\* first recognized transfer of the instruction list, and the sentinel
\* exactly when the list has no recognized transfer.
C4_FirstRecognizedTransfer ==
    pc = "parsed" =>
        LET ins == api.ret.result.transaction.message.instructions
            hits == {k \in 1..Len(ins) : Recognized(ins[k])}
        IN  IF hits = {}
            THEN Classified(parsed) = UnknownTransfer
            ELSE LET first == CHOOSE k \in hits : \A j \in hits : k <= j
                 IN  /\ Classified(parsed) = scan_instructions(<<ins[first]>>)
                     /\ Classified(parsed) # UnknownTransfer

\* C5: a call that exhausted its attempts returns None; from data that is
\* None or has no result, get_balance gives None and get_token_accounts and
\* get_recent_transactions give an empty collection; from data that is None,
\* has no result or a null result, parse_transaction gives None; a failed
\* proxy fetch gives the empty proxy list.
NoResult(data) == data = None \/ "result" \notin DOMAIN data

C5_States ==
    /\ (api.state = "returned" /\ api.fails > api.retries) => api.ret = None
    /\ proxy_body = [ok |-> FALSE] => session_state.proxies_list = <<>>

C5_Steps ==
    /\ (pc = "get_balance" /\ pc' = "get_token_accounts" /\ NoResult(api.ret))
          => balance' = None
    /\ (pc = "get_token_accounts" /\ pc' = "get_recent_transactions"
          /\ NoResult(api.ret))
          => token_balances' = <<>> /\ nfts' = <<>>
    /\ (pc = "get_recent_transactions" /\ pc' # pc /\ NoResult(api.ret))
          => txs' = <<>>
    /\ (pc = "parse_loop" /\ pc' = "rate_sleep"
          /\ (NoResult(api.ret) \/ api.ret.result = None))
          => parsed' = None /\ txs_data' = txs_data
    /\ (pc = "parse_value" /\ pc' # pc
          /\ (NoResult(api.ret) \/ api.ret.result = None))
          => txs_data'[Len(txs_data')] = None

C5_FailuresDegrade == [](C5_States) /\ [][C5_Steps]_vars

C5_Witness ==
    /\ pc = "rate_sleep"
    /\ proxy_body = [ok |-> FALSE]
    /\ balance = None
    /\ api.fails = 3
    /\ parsed = None

\* C6: for a record with both balance snapshots the net SOL delta is
\* (postBalances[i] - preBalances[i]) / 10^9 at the first position i of the
\* wallet in the account list, and 0 when the wallet is not listed, whatever
\* the instruction list is.
C6_NetSolDelta ==
    pc = "parsed" =>
        LET tx == api.ret.result
            keys == tx.transaction.message.accountKeys
            at == {i \in 1..Len(keys) : keys[i].pubkey = wallet_input}
            d == parsed.net_change_sol
        IN  {"preBalances", "postBalances"} \subseteq DOMAIN tx.meta =>
              IF at = {} THEN d.num = 0 /\ d.den = 1
              ELSE LET i == CHOOSE k \in at : \A j \in at : k <= j
                       diff == tx.meta.postBalances[i] - tx.meta.preBalances[i]
                   IN  /\ d.den > 0
                       /\ LAMPORTS_PER_SOL % d.den = 0
                       /\ d.num * (LAMPORTS_PER_SOL \div d.den) = diff
                       /\ (tx.meta.preBalances[i] = 2000000000
                             /\ tx.meta.postBalances[i] = 1500000000)
                            => d = [num |-> -1, den |-> 2]

C6_Witness ==
    /\ pc = "parsed"
    /\ parsed.net_change_sol = [num |-> -1, den |-> 2]
    /\ api.ret.result.transaction.message.accountKeys[1].pubkey # wallet_input
    /\ api.ret.result.transaction.message.instructions # <<>>
    /\ parsed.amount = [num |-> 1, den |-> 1]

\* C7 (as claimed): between two consecutive getTransaction posts for
\* different entries of the list there is a sleep of at least one second,
\* and when the batch is complete every entry was looked up by exactly one
\* parse_transaction call.
C7_SpacedSingleLookups ==
    /\ \A a, b \in 1..Len(log) :
          (/\ a < b
           /\ log[a].ev = "post" /\ log[a].method = "getTransaction"
           /\ log[b].ev = "post" /\ log[b].method = "getTransaction"
           /\ log[a].entry # log[b].entry
           /\ \A c \in (a + 1)..(b - 1) : log[c].ev # "post")
          => \E c \in (a + 1)..(b - 1) :
                log[c].ev = "sleep" /\ log[c].secs >= 1
    /\ pc = "save" => \A i \in DOMAIN lookups : lookups[i] = 1

\* C9: the token delta map has a key exactly for the mints of the pre rows of
\* the qualifying pairs (same position in both snapshots, within the shorter
\* one, owned by the wallet on both sides, nonzero post - pre), and the value
\* of a key is the delta of the last qualifying pair with that mint.
C9_TokenDeltas ==
    pc = "parsed" =>
        LET m == api.ret.result.meta
        IN  {"preTokenBalances", "postTokenBalances"} \subseteq DOMAIN m =>
            LET pre == m.preTokenBalances
                post == m.postTokenBalances
                Delta(j) == post[j].uiTokenAmount.uiAmount
                              - pre[j].uiTokenAmount.uiAmount
                pairs == {j \in 1..Min(Len(pre), Len(post)) :
                            /\ pre[j].owner = wallet_input
                            /\ post[j].owner = wallet_input
                            /\ Delta(j) # 0}
                map == parsed.net_changes_token
            IN  /\ DOMAIN map = {pre[j].mint : j \in pairs}
                /\ \A j \in pairs :
                      (\A k \in pairs : pre[k].mint = pre[j].mint => k <= j)
                          => map[pre[j].mint] = Delta(j)

C9_Witness ==
    /\ pc = "parsed"
    /\ LET pre == api.ret.result.meta.preTokenBalances
           post == api.ret.result.meta.postTokenBalances
       IN  /\ Len(pre) = 2 /\ Len(post) = 2
           /\ \A j \in 1..2 : pre[j].owner = wallet_input
                                /\ post[j].owner = wallet_input
           /\ pre[1].mint = Mint1 /\ pre[2].mint = Mint1
           /\ post[1].mint = Mint2
           /\ post[1].uiTokenAmount.uiAmount - pre[1].uiTokenAmount.uiAmount = 1
           /\ post[2].uiTokenAmount.uiAmount - pre[2].uiTokenAmount.uiAmount = -1
    /\ DOMAIN parsed.net_changes_token = {Mint1}
    /\ parsed.net_changes_token[Mint1] = -1

\* C10 (as claimed): every element of the list handed to the table and to
\* save_to_file is a summary, never None.
C10_NoAbsentHanded ==
    \A i \in 1..Len(handed) : handed[i] # None

====
